---- MODULE Spec2Model ----
(***************************************************************************)
(* Model of the chat back end of v0-dual-bot: the two route modules that   *)
(* serve a chat request (the multi-workflow route and the direct-chat      *)
(* route), the search adapter's citation normalisation, and the markdown   *)
(* cleanup applied to the answer provider's text.                          *)
(*                                                                         *)
(* Text is a sequence of atoms.  An atom is one character ("*", "#", " ",  *)
(* "\n", ...) or an opaque run of content characters ("a", "q", a phrase). *)
(***************************************************************************)
EXTENDS Integers, Sequences, FiniteSets, TLC

VARIABLES
    route,      \* which route module serves the request: "chat" or "direct"
    env,        \* provider credentials read from the environment at start
    req,        \* the request body: model, workflow, messages, files
    pc,         \* the handler's position (the await it is suspended at)
    idx,        \* loop index of the upload loop and of the message loop
    calls,      \* the provider calls issued so far, in order
    question,   \* userQuestion
    found,      \* what the search adapter returned
    refs,       \* referencesText, as the entries it renders
    prompts,    \* one {input, output} per rewrite-provider call
    uploaded,   \* uploadedFiles
    contents,   \* processedContents / the contents given to generateContent
    resp,       \* the response returned (NoResp while the handler runs)
    sanIn,      \* cleanup study: the generated text T
    sanOnce,    \* cleanup study: cleanup(T)
    sanTwice,   \* cleanup study: cleanup(cleanup(T))
    sanPc,      \* cleanup study: how many times the chain has been applied
    citIn,      \* citation study: the citation groups of one provider response
    citOut,     \* citation study: the results the adapter returns for them
    citPc,      \* citation study: 1 once the adapter has run
    pagePc,     \* chat page: "unmounted", "mounted" (effects of the first
                \* render have run), "ready" (the loaded list is rendered)
    stored,     \* chat page: localStorage[SESSIONS_STORAGE]
    sessions,   \* chat page: useChatSessions' sessions
    activeId,   \* chat page: useChatSessions' activeId
    nextId,     \* chat page: the next uuid of a session
    input,      \* chat page: the text of the composer
    isLoading,  \* chat page: isLoading
    attachments,   \* chat page: the chips of the composer
    fileContents,  \* chat page: the processed contents waiting to be sent
    picked,     \* chat page: how many files have been selected so far
    jobs,       \* chat page: the onFilesSelected calls still processing
    sends,      \* chat page: the handleSend calls awaiting callDirectAPI
    issued,     \* chat page: how many handleSend calls have been issued
    removed     \* chat page: the ids of the chips the user removed

reqVars == <<route, env, req, pc, idx, calls, question, found, refs, prompts,
             uploaded, contents, resp>>

sanVars == <<sanIn, sanOnce, sanTwice, sanPc>>

citVars == <<citIn, citOut, citPc>>

pageVars == <<pagePc, stored, sessions, activeId, nextId, input, isLoading,
              attachments, fileContents, picked, jobs, sends, issued, removed>>

studyVars == <<sanIn, sanOnce, sanTwice, sanPc, citIn, citOut, citPc, pageVars>>

vars == <<route, env, req, pc, idx, calls, question, found, refs, prompts,
          uploaded, contents, resp, sanIn, sanOnce, sanTwice, sanPc,
          citIn, citOut, citPc, pageVars>>

-----------------------------------------------------------------------------
(* Bounds *)

MaxTextLen == 4

-----------------------------------------------------------------------------
(* Text helpers *)

NL == "\n"

\* the atom of the inline-code delimiter (U+0060)
BackTick == "tick"

\* what the regex class \s and String.prototype.trim treat as white space
WhiteSpace == {" ", NL}

SubSeqFrom(s, i) == IF i > Len(s) THEN <<>> ELSE SubSeq(s, i, Len(s))

\* does the atom sequence d occur in s starting at position i
OccursAt(s, d, i) ==
    /\ i >= 1
    /\ i + Len(d) - 1 <= Len(s)
    /\ \A k \in 1..Len(d) : s[i + k - 1] = d[k]

\* String.prototype.trim
RECURSIVE TrimLeft(_)
TrimLeft(s) ==
    IF s # <<>> /\ Head(s) \in WhiteSpace THEN TrimLeft(Tail(s)) ELSE s

RECURSIVE TrimRight(_)
TrimRight(s) ==
    IF s # <<>> /\ s[Len(s)] \in WhiteSpace
    THEN TrimRight(SubSeq(s, 1, Len(s) - 1))
    ELSE s

Trim(s) == TrimRight(TrimLeft(s))

\* position i is where the multiline anchor ^ matches
LineStart(s, i) == i = 1 \/ s[i - 1] = NL

\* first position >= i holding an atom outside set cls (Len(s)+1 if none)
RECURSIVE SkipWhile(_, _, _)
SkipWhile(s, cls, i) ==
    IF i <= Len(s) /\ s[i] \in cls THEN SkipWhile(s, cls, i + 1) ELSE i

\* first position >= i holding an atom in set cls (Len(s)+1 if none)
RECURSIVE SkipUntil(_, _, _)
SkipUntil(s, cls, i) ==
    IF i <= Len(s) /\ s[i] \notin cls THEN SkipUntil(s, cls, i + 1) ELSE i

-----------------------------------------------------------------------------
(* The markdown cleanup chain *)

\* The lazy group (.*?) followed by the closing delimiter d, tried from j:
\* the first j where d occurs, reached over atoms that "." matches (no newline).
\* 0 when the pattern cannot match.
RECURSIVE LazyClose(_, _, _)
LazyClose(s, d, j) ==
    IF j + Len(d) - 1 > Len(s) THEN 0
    ELSE IF OccursAt(s, d, j) THEN j
    ELSE IF s[j] = NL THEN 0
    ELSE LazyClose(s, d, j + 1)

\* text.replace(/D(.*?)D/g, '$1') for a delimiter D: scan from i
RECURSIVE StripDelim(_, _, _)
StripDelim(s, d, i) ==
    IF i > Len(s) THEN <<>>
    ELSE IF OccursAt(s, d, i) /\ LazyClose(s, d, i + Len(d)) # 0
         THEN LET j == LazyClose(s, d, i + Len(d))
              IN  SubSeq(s, i + Len(d), j - 1) \o StripDelim(s, d, j + Len(d))
         ELSE <<s[i]>> \o StripDelim(s, d, i + 1)

RemoveBold(s) == StripDelim(s, <<"*", "*">>, 1)

RemoveItalic(s) == StripDelim(s, <<"*">>, 1)

RemoveInlineCode(s) == StripDelim(s, <<BackTick>>, 1)

\* text.replace(/^M+\s+/gm, '') resp. /^M\s+/gm: a marker run at a line start
\* followed by white space; many = TRUE for the "+" quantifier on the marker
RECURSIVE StripLinePrefix(_, _, _, _)
StripLinePrefix(s, markers, many, i) ==
    IF i > Len(s) THEN <<>>
    ELSE LET m  == IF many THEN SkipWhile(s, markers, i)
                   ELSE IF s[i] \in markers THEN i + 1 ELSE i
             w  == SkipWhile(s, WhiteSpace, m)
         IN  IF LineStart(s, i) /\ m > i /\ w > m
             THEN StripLinePrefix(s, markers, many, w)
             ELSE <<s[i]>> \o StripLinePrefix(s, markers, many, i + 1)

RemoveHeadings(s) == StripLinePrefix(s, {"#"}, TRUE, 1)

RemoveListMarkers(s) == StripLinePrefix(s, {"-", "*", "+"}, FALSE, 1)

\* text.replace(/\[([^\]]+)\]\([^)]+\)/g, '$1')
RECURSIVE StripLinks(_, _)
StripLinks(s, i) ==
    IF i > Len(s) THEN <<>>
    ELSE LET c == SkipUntil(s, {"]"}, i + 1)      \* the closing bracket
             p == SkipUntil(s, {")"}, c + 2)      \* the closing parenthesis
         IN  IF /\ s[i] = "["
                /\ c <= Len(s) /\ c > i + 1
                /\ c + 1 <= Len(s) /\ s[c + 1] = "("
                /\ p <= Len(s) /\ p > c + 2
             THEN SubSeq(s, i + 1, c - 1) \o StripLinks(s, p + 1)
             ELSE <<s[i]>> \o StripLinks(s, i + 1)

RemoveLinks(s) == StripLinks(s, 1)

\* text.replace(/\n{3,}/g, '\n\n')
RECURSIVE CollapseFrom(_, _)
CollapseFrom(s, i) ==
    IF i > Len(s) THEN <<>>
    ELSE LET e == SkipWhile(s, {NL}, i)
         IN  IF e - i >= 3 THEN <<NL, NL>> \o CollapseFrom(s, e)
             ELSE <<s[i]>> \o CollapseFrom(s, i + 1)

CollapseNewlines(s) == CollapseFrom(s, 1)

\* the chain the handlers apply to response.text()
CleanText(s) ==
    Trim(CollapseNewlines(RemoveListMarkers(RemoveLinks(RemoveHeadings(
        RemoveInlineCode(RemoveItalic(RemoveBold(s))))))))

-----------------------------------------------------------------------------
(* stripReferenceSection *)

\* Heading atoms.  "Nguon tham khao" stands for the accented spelling the
\* model may write, "NGUON THAM KHAO" for its upper-case form; "nguon tham khao"
\* is the accent-stripped lower-case form.
RefHeadings == {"Nguon tham khao", "NGUON THAM KHAO", "nguon tham khao"}

\* line.normalize('NFD') minus the combining marks U+0300..U+036F, lower-cased,
\* of one atom
Simplify(a) == IF a \in RefHeadings THEN "nguon tham khao" ELSE a

\* the line starting at i, accent-stripped, lower-cased and trimmed, starts
\* with 'nguon tham khao'
IsRefHeadingLine(s, i) ==
    LET k == SkipWhile(s, {" "}, i)
    IN  k <= Len(s) /\ Simplify(s[k]) = "nguon tham khao"

\* the starts of the lines of s.split('\n')
LineStarts(s) == {i \in 1..(Len(s) + 1) : LineStart(s, i)}

stripReferenceSection(s) ==
    IF s = <<>> THEN s
    ELSE LET hs == {i \in LineStarts(s) : IsRefHeadingLine(s, i)}
         IN  IF hs = {} THEN Trim(s)
             ELSE LET last == CHOOSE i \in hs : \A j \in hs : j <= i
                  IN  IF last <= 2 THEN <<>>
                      ELSE Trim(SubSeq(s, 1, last - 2))

-----------------------------------------------------------------------------
(* The search adapter: searchWithPerplexityStyle's citation normalisation *)

Digits == <<"0", "1", "2", "3", "4", "5", "6", "7", "8", "9">>

\* `${n}` for a natural number
RECURSIVE NumText(_)
NumText(n) ==
    IF n < 10 THEN <<Digits[n + 1]>>
    ELSE NumText(n \div 10) \o <<Digits[(n % 10) + 1]>>

\* a || b || c || d on strings: the first non-empty one, else the last
FirstTruthy(a, b, c, d) ==
    IF a # <<>> THEN a ELSE IF b # <<>> THEN b ELSE IF c # <<>> THEN c ELSE d

\* A citation candidate: shape "string" (a plain URL string, in field url),
\* "object" (title / source / url / link / snippet, empty when absent) or
\* "other" (null, a number: neither a string nor an object).
Citation(shape, title, source, url, link, snippet) ==
    [shape |-> shape, title |-> title, source |-> source, url |-> url,
     link |-> link, snippet |-> snippet]

StringCitation(u) == Citation("string", <<>>, <<>>, u, <<>>, <<>>)

NoEntry == [title |-> <<"null">>, url |-> <<"null">>, content |-> <<"null">>, none |-> TRUE]

\* the entry built from the citation at position n (index n-1 of the forEach)
EntryOf(c, n) ==
    IF c.shape = "string"
    THEN [title |-> <<"Source ">> \o NumText(n), url |-> c.url,
          content |-> <<>>, none |-> FALSE]
    ELSE IF c.shape = "object"
    THEN [title |-> FirstTruthy(c.title, c.source, c.url, <<"Source ">> \o NumText(n)),
          url |-> FirstTruthy(c.url, c.source, c.link, <<>>),
          content |-> c.snippet, none |-> FALSE]
    ELSE NoEntry

\* const key = `${entry.url || ""}|${entry.title}`
EntryKey(e) == e.url \o <<"|">> \o e.title

SearchResult(e) == [title |-> e.title, url |-> e.url, content |-> e.content]

\* a forEach that pushes every entry, seen or not
RECURSIVE KeepAll(_, _, _, _)
KeepAll(candidates, n, seen, results) ==
    IF n > Len(candidates) THEN results
    ELSE LET e == EntryOf(candidates[n], n)
         IN  KeepAll(candidates, n + 1, seen,
                     IF e.none THEN results ELSE Append(results, SearchResult(e)))

\* citationCandidates.forEach(...): keep an entry unless its key was seen
RECURSIVE Dedupe(_, _, _, _)
Dedupe(candidates, n, seen, results) ==
    IF n > Len(candidates) THEN results
    ELSE LET e == EntryOf(candidates[n], n)
         IN  IF e.none \/ EntryKey(e) \in seen
             THEN Dedupe(candidates, n + 1, seen, results)
             ELSE Dedupe(candidates, n + 1, seen \cup {EntryKey(e)},
                         Append(results, SearchResult(e)))

NormaliseCitations(candidates) == Dedupe(candidates, 1, {}, <<>>)

\* one metadata location of the provider's response: an array of citations,
\* or anything else (absent, null, an object)
Group(isArray, items) == [isArray |-> isArray, items |-> items]

\* pushGroup over the metadata locations in order: arrays are concatenated,
\* everything else is skipped
RECURSIVE CollectCandidates(_)
CollectCandidates(groups) ==
    IF groups = <<>> THEN <<>>
    ELSE (IF Head(groups).isArray THEN Head(groups).items ELSE <<>>)
         \o CollectCandidates(Tail(groups))

\* the results searchWithPerplexityStyle returns for a response's groups
SearchResults(groups) == NormaliseCitations(CollectCandidates(groups))

-----------------------------------------------------------------------------
(* Requests, credentials and responses *)

MAX_REFERENCES == 5

\* the keys of MODEL_MAPPING
MODEL_MAPPING ==
    {"gpt-4o", "gpt-4o-mini", "gpt-4-turbo", "gpt-3.5-turbo",
     "gemini-2.5-pro", "gemini-2.5-flash", "gemini-2.5-flash-lite",
     "gemini-2.0-flash", "gemini-2.0-flash-lite", "gemini-2.0-pro",
     "gemini-1.5-flash", "gemini-1.5-flash-lite", "gemini-1.5-pro",
     "gemini-1.0-pro", "gemini-1.0-ultra", "gemini-1.0-nano",
     "gemini-embedding", "gemini-2.5-flash-preview-tts",
     "gemini-2.5-flash-preview-image-generation",
     "gemini-2.5-flash-live-preview-04-09"}

\* the workflow ids of the design, and one id no route knows
KnownWorkflows ==
    {"single", "chatgpt-to-gemini", "tavily-to-gemini", "perplexity-to-gemini",
     "perplexity-chatgpt-gemini"}

Workflows == KnownWorkflows \cup {"no-such-workflow"}

Models == {"gemini-2.5-flash", "no-such-model"}

\* the MIME types uploadFilesToGeminiSDK routes through the Files API
UploadTypes ==
    {"application/vnd.openxmlformats-officedocument.wordprocessingml.document",
     "application/msword",
     "application/vnd.openxmlformats-officedocument.spreadsheetml.sheet",
     "application/vnd.ms-excel",
     "application/vnd.openxmlformats-officedocument.presentationml.presentation",
     "application/pdf"}

\* file.type.startsWith("image/")
ImageTypes == {"image/png", "image/jpeg"}

File(name, type) == [name |-> name, type |-> type]

\* message.content is a string (kind "str") or an array of parts (kind
\* "parts") holding at most one text part and at most one image_url part
Message(role, kind, hasText, text, hasImage) ==
    [role |-> role, kind |-> kind, hasText |-> hasText, text |-> text,
     hasImage |-> hasImage]

StrMessage(role, text) == Message(role, "str", TRUE, text, FALSE)

PartsMessage(role, hasText, text, hasImage) ==
    Message(role, "parts", hasText, text, hasImage)

NoResp ==
    [sent |-> FALSE, status |-> 0, error |-> <<>>, errorType |-> "",
     hasText |-> FALSE, text |-> <<>>, sources |-> "none", entries |-> <<>>]

\* a response that puts the error message in the text fields as well
ErrorAsText(status, error, errorType) ==
    [sent |-> TRUE, status |-> status, error |-> error, errorType |-> errorType,
     hasText |-> TRUE, text |-> error, sources |-> "none", entries |-> <<>>]

\* NextResponse.json({ error, errorType }, { status })
ErrorResponse(status, error, errorType) ==
    [sent |-> TRUE, status |-> status, error |-> error, errorType |-> errorType,
     hasText |-> FALSE, text |-> <<>>, sources |-> "none", entries |-> <<>>]

\* NextResponse.json({ candidates, choices, ... }): the final text is the
\* answer body followed, after a blank line, by the sources section, if any
\* (sources "list": heading and numbered entries; "placeholder": the
\* '(khong co)' line; "none": no section)
AnswerResponse(text, sources, entries) ==
    [sent |-> TRUE, status |-> 200, error |-> <<>>, errorType |-> "",
     hasText |-> TRUE, text |-> text, sources |-> sources, entries |-> entries]

\* what the search adapter returned: error is "not-run" before the search
\* step, "none" on success, else the adapter's error type; raw holds the
\* citations of the provider's response (raw: data)
SearchReturn(error, answer, results, raw) ==
    [error |-> error, answer |-> answer, results |-> results, raw |-> raw]

NoSearch == SearchReturn("not-run", <<>>, <<>>, <<>>)

\* a provider call: the stage it belongs to ("search", "rewrite", "answer",
\* or "upload" for the Files API) and how the call ended
Call(stage, outcome) == [stage |-> stage, outcome |-> outcome, msg |-> <<>>]

\* a provider call that returned the text msg
Returned(stage, msg) == [stage |-> stage, outcome |-> "ok", msg |-> msg]

\* a provider call that threw an error with message msg
Threw(stage, msg) == [stage |-> stage, outcome |-> "throw", msg |-> msg]

-----------------------------------------------------------------------------
(* Dispatch and the handlers' synchronous parts *)

\* POST: the handler the workflow id selects in each route module
Handler(r, workflow) ==
    IF r = "chat"
    THEN IF workflow = "chatgpt-to-gemini" THEN "handleChatGPTToGemini"
         ELSE IF workflow = "perplexity-to-gemini" THEN "handlePerplexityToGemini"
         ELSE IF workflow = "perplexity-chatgpt-gemini"
              THEN "handlePerplexityChatGPTToGemini"
         ELSE "handleGoogle"
    ELSE IF workflow = "tavily-to-gemini" THEN "handleTavilyToGemini"
         ELSE "handleGoogle"

\* the credential checks at the top of each handler: the error message, or
\* <<>> when the handler goes on
MissingKeyError(h, e) ==
    IF h = "handlePerplexityChatGPTToGemini"
    THEN IF ~e.google \/ ~e.openai THEN <<"API keys not configured">> ELSE <<>>
    ELSE IF ~e.google THEN <<"Google API key not configured">>
    ELSE IF h = "handleChatGPTToGemini" /\ ~e.openai
         THEN <<"OpenAI API key not configured for ChatGPT-to-Gemini workflow">>
    ELSE <<>>

\* userQuestion: the string content, or the first text part's text, or ""
UserQuestion(m) ==
    IF m.kind = "str" THEN m.text ELSE IF m.hasText THEN m.text ELSE <<>>

\* typeof msg.content === "string" ? msg.content : JSON.stringify(msg.content)
ContentString(m) ==
    IF m.kind = "str" THEN m.text
    ELSE <<"[json">> \o (IF m.hasText THEN <<" text:">> \o m.text ELSE <<>>)
         \o (IF m.hasImage THEN <<" image_url">> ELSE <<>>) \o <<"]">>

RoleLabel(role) == IF role = "user" THEN "Nguoi dung" ELSE "Tro ly"

\* lines.join(sep)
RECURSIVE Join(_, _)
Join(lines, sep) ==
    IF lines = <<>> THEN <<>>
    ELSE IF Len(lines) = 1 THEN lines[1]
    ELSE lines[1] \o sep \o Join(Tail(lines), sep)

\* conversationContext: the messages before the last, one labelled line each
ConversationContext(messages) ==
    IF Len(messages) > 1
    THEN Join([i \in 1..(Len(messages) - 1) |->
                  <<RoleLabel(messages[i].role), ": ">> \o ContentString(messages[i])],
              <<NL>>)
    ELSE <<>>

\* role: msg.role === "assistant" ? "model" : "user"
GeminiRole(role) == IF role = "assistant" THEN "model" ELSE "user"

TextPart(t) == [kind |-> "text", text |-> t]

InlinePart(data) == [kind |-> "inlineData", text |-> data]

FilePart(uri) == [kind |-> "fileData", text |-> uri]

Content(role, parts) == [role |-> role, parts |-> parts]

\* messages.map(...) with the last message's content replaced by prompt, then
\* mapped to { role, parts: [{ text }] }
ReplaceLast(messages, prompt) ==
    [i \in 1..Len(messages) |->
        Content(GeminiRole(messages[i].role),
                <<TextPart(IF i = Len(messages) THEN prompt
                           ELSE ContentString(messages[i]))>>)]

\* seq.slice(-n)
TakeLast(seq, n) ==
    IF Len(seq) <= n THEN seq ELSE SubSeq(seq, Len(seq) - n + 1, Len(seq))

\* seq.slice(0, n)
Take(seq, n) == IF Len(seq) <= n THEN seq ELSE SubSeq(seq, 1, n)

\* new URL(rawUrl).hostname.replace(/^www\./, ''): <<>> when the URL does
\* not parse.  A parsable URL is a scheme atom, host atoms, then path atoms.
Schemes == {"https://", "http://"}

PathAtoms == {"/", "?", "#"}

Hostname(u) ==
    IF u = <<>> \/ u[1] \notin Schemes THEN <<>>
    ELSE LET e == SkipUntil(u, PathAtoms, 2)
             h == IF e > 2 THEN SubSeq(u, 2, e - 1) ELSE <<>>
         IN  IF h # <<>> /\ h[1] = "www." THEN Tail(h) ELSE h

\* one line of referencesText / chatReferencesText, for the result at
\* position n of limitedResults
DisplayEntry(result, n) ==
    LET rawUrl == Trim(result.url)
        t1 == Trim(result.title)
        t2 == IF t1 = <<>> /\ rawUrl # <<>> THEN Hostname(rawUrl) ELSE t1
    IN  [n |-> n,
         title |-> IF t2 # <<>> THEN t2 ELSE <<"Nguon ">> \o NumText(n),
         url |-> IF rawUrl # <<>> THEN rawUrl ELSE <<"(khong co URL)">>,
         content |-> result.content]

\* researchResults.slice(0, MAX_REFERENCES).map(...)
ReferenceEntries(results) ==
    LET limited == Take(results, MAX_REFERENCES)
    IN  [n \in 1..Len(limited) |-> DisplayEntry(limited[n], n)]

\* `${index + 1}. ${title} - ${url}\n${content}`, joined with '\n'
RenderEntries(entries) ==
    Join([n \in 1..Len(entries) |->
             NumText(entries[n].n) \o <<". ">> \o entries[n].title \o <<" - ">>
             \o entries[n].url \o <<NL>> \o entries[n].content],
         <<NL>>)

\* handlePerplexityToGemini: searchSections and promptParts joined
PerplexityPrompt(messages, q, answer, entries) ==
    LET sections ==
            (IF answer # <<>>
             THEN << <<"TOM TAT TU NGUON TIM KIEM:", NL>> \o answer >> ELSE <<>>)
            \o (IF entries # <<>>
                THEN << <<"THAM KHAO:", NL>> \o RenderEntries(entries) >> ELSE <<>>)
        context == ConversationContext(messages)
        parts ==
            << <<"INSTRUCTIONS">> >>
            \o (IF context # <<>>
                THEN << <<"Ngu canh cuoc tro chuyen:", NL>> \o context >> ELSE <<>>)
            \o (IF sections # <<>>
                THEN << <<"Du lieu tim kiem tu Perplexity:", NL>>
                        \o Join(sections, <<NL, NL>>) >> ELSE <<>>)
            \o << <<"Cau hoi hien tai: ">> \o q >>
    IN  Join(parts, <<NL, NL>>)

\* handlePerplexityChatGPTToGemini: searchContext and the user message given
\* to the rewrite provider
RefineInput(q, answer, entries) ==
    LET sections ==
            (IF answer # <<>> THEN << <<"Summary:", NL>> \o answer >> ELSE <<>>)
            \o (IF entries # <<>>
                THEN << <<"References:", NL>> \o RenderEntries(entries) >> ELSE <<>>)
        searchContext ==
            IF sections # <<>> THEN Join(sections, <<NL, NL>>)
            ELSE <<"No additional research data was returned.">>
    IN  <<"RESEARCH DATA:", NL>> \o searchContext
        \o <<NL, NL, "ORIGINAL QUESTION: ">> \o q \o <<NL, NL, "TASK">>

\* handleChatGPTToGemini: enhancedPrompt
ChatGPTPrompt(messages, q, optimized) ==
    LET context == ConversationContext(messages)
    IN  IF context # <<>>
        THEN <<"NGU CANH CUOC TRO CHUYEN:", NL>> \o context
             \o <<NL, NL, "CAU HOI HIEN TAI: ">> \o q
             \o <<NL, NL, "PROMPT DA TOI UU:", NL>> \o optimized
        ELSE optimized

\* handleTavilyToGemini: enhancedPrompt
TavilyPrompt(q, answer, results) ==
    IF results # <<>>
    THEN (IF answer # <<>> THEN <<NL, "Tom tat tu Tavily AI:", NL>> \o answer \o <<NL, NL>>
          ELSE <<>>)
         \o <<"Dua tren thong tin tim kiem", NL, NL, "THONG TIN TIM KIEM:", NL>>
         \o Join([n \in 1..Len(results) |->
                     NumText(n) \o <<". **">> \o results[n].title \o <<"**", NL>>
                     \o results[n].content \o <<NL, "Nguon: ">> \o results[n].url],
                 <<NL, NL>>)
         \o <<NL, NL, "CAU HOI: ">> \o q \o <<NL, NL, "YEU CAU TRA LOI">>
    ELSE q

\* error?.message?.includes(needle), on a message of word atoms
Includes(msg, needle) == \E i \in 1..Len(msg) : msg[i] = needle

\* handleGoogle's catch block
GoogleError(msg) ==
    IF Includes(msg, "API key")
    THEN ErrorResponse(401, <<"Invalid Google API key. Please check your configuration.">>,
                       "invalid_key")
    ELSE IF Includes(msg, "quota") \/ Includes(msg, "limit")
    THEN ErrorResponse(429, <<"Google API quota exceeded. Please try again later.">>,
                       "quota_exceeded")
    ELSE ErrorResponse(500,
                       IF msg # <<>> THEN msg
                       ELSE <<"Failed to get response from Google Gemini">>,
                       "api_error")

\* the workflow handlers' catch blocks
WorkflowError(msg) ==
    ErrorResponse(500, IF msg # <<>> THEN msg ELSE <<"Failed to process workflow">>,
                  "workflow_error")

\* the final response of the handlers that clean the text and append
\* referencesText when it is not empty
GroundedAnswer(text, entries) ==
    AnswerResponse(stripReferenceSection(CleanText(text)),
                   IF entries # <<>> THEN "list" ELSE "none", entries)

\* an uploaded file handle, for the file at position i of the request
Handle(f, i) ==
    [name |-> <<"files/", f.name>>, fileUri |-> <<"https://files/", f.name>>,
     mimeType |-> f.type, of |-> i]

\* handleGoogle of the chat route: displayFiles and sourcesSection
FileEntries(handles) ==
    LET display == Take(handles, MAX_REFERENCES)
    IN  [n \in 1..Len(display) |->
            [n |-> n, title |-> display[n].name, url |-> display[n].fileUri,
             content |-> <<>>]]

\* handleGoogle's final response, per route module
SingleAnswer(r, text, handles) ==
    IF r = "chat"
    THEN AnswerResponse(stripReferenceSection(CleanText(text)),
                        IF handles # <<>> THEN "list" ELSE "placeholder",
                        FileEntries(handles))
    ELSE AnswerResponse(text, "none", <<>>)

\* processMessagesForGoogleSDK: the parts of an array-content message
ArrayParts(m) ==
    (IF m.hasText THEN <<TextPart(m.text)>> ELSE <<>>)
    \o (IF m.hasImage THEN <<InlinePart(<<"base64">>)>> ELSE <<>>)

\* a message builder that attaches nothing
AttachNothing(cs, handles, files) == cs

\* processMessagesForGoogleSDK: uploaded files and inline images are pushed
\* onto the last content when it is a user turn
AttachFiles(cs, handles, files) ==
    IF cs = <<>> \/ cs[Len(cs)].role # "user" THEN cs
    ELSE LET fileParts == [i \in 1..Len(handles) |-> FilePart(handles[i].fileUri)]
             images == SelectSeq(files, LAMBDA f : f.type \in ImageTypes)
             imageParts == [i \in 1..Len(images) |-> InlinePart(<<"data:", images[i].name>>)]
             last == cs[Len(cs)]
         IN  [cs EXCEPT ![Len(cs)] =
                 Content(last.role, last.parts \o fileParts \o imageParts)]

\* handleGoogle of the chat route puts systemInstruction before the contents
SystemInstruction == Content("user", <<TextPart(<<"SYSTEM INSTRUCTION">>)>>)

-----------------------------------------------------------------------------
(* The inputs a request and the providers can supply *)

MaxResults == 6

MaxFiles == 6

Q == <<"q">>

UserQ == StrMessage("user", Q)

MessageLists ==
    { <<>>,
      <<UserQ>>,
      <<StrMessage("user", <<" ", NL>>)>>,
      <<PartsMessage("user", TRUE, Q, TRUE)>>,
      <<PartsMessage("user", FALSE, <<>>, TRUE)>>,
      <<StrMessage("user", <<"q0">>), StrMessage("assistant", <<"a0">>), UserQ>> }

Pdf(name) == File(name, "application/pdf")

FileLists == { <<>>, <<File("i1", "image/png"), Pdf("f1")>> }

\* more documents than the sources section lists
ManyFiles == [i \in 1..MaxFiles |-> Pdf(NumText(i)[1])]

\* the request bodies: every message list with every short file list, and
\* the plain question with the long file list
Requests ==
    [model : Models, workflow : Workflows, messages : MessageLists,
     files : FileLists]
    \cup [model : Models, workflow : Workflows, messages : {<<UserQ>>},
          files : {ManyFiles}]

Credentials ==
    [google : BOOLEAN, openai : BOOLEAN, perplexity : BOOLEAN, tavily : BOOLEAN]

\* what the rewrite provider's completion holds
RewrittenPrompt == <<"p">>

\* the outcomes of one fetch of the rewrite provider: a completion, a
\* completion without content, a non-2xx response, a rejected fetch
RewriteOutcomes == {"ok", "empty", "http", "throw"}

\* the outcomes of one fetch of a search provider
SearchOutcomes == {"ok", "http", "throw"}

Summaries == {<<>>, <<"sum">>}

UrlA == <<"https://", "www.", "a.vn", "/", "x">>

ObjA == Citation("object", <<"A">>, <<>>, UrlA, <<>>, <<"snip">>)

\* the citation candidates of a search response
\* an object citation with a URL and no title, and one with neither
ObjNoTitle == Citation("object", <<>>, <<>>, UrlA, <<>>, <<"snip">>)

ObjBare == Citation("object", <<>>, <<>>, <<>>, <<>>, <<"snip">>)

CitationLists ==
    { <<>>,
      <<ObjNoTitle, ObjBare>>,
      <<ObjA, StringCitation(UrlA), ObjA>>,
      [i \in 1..MaxResults |-> StringCitation(UrlA)] }

TavilyResult(t) == [title |-> <<t>>, url |-> UrlA, content |-> <<"snip">>]

TavilyResultLists ==
    { <<>>, <<TavilyResult("A"), TavilyResult("B"), TavilyResult("C")>> }

\* what response.text() of the answer provider holds
AnswerTexts ==
    { <<"a">>,
      <<>>,
      <<"*", "*", "a", "*", "*">>,
      <<"a", NL, "Nguon tham khao", ":", NL, "1", ")", " ", "x">>,
      <<"a", NL, "Nguon tham khao", ":", " ", "x", NL, "b", NL,
        "NGUON THAM KHAO", ":", " ", "y">> }

\* the message of the error the answer provider's SDK throws
ErrorMessages ==
    { <<"API key", " not valid">>, <<"quota", " exceeded">>, <<"rate ", "limit">>,
      <<"Quota", " exceeded">>, <<"API KEY", " INVALID">>, <<"boom">>, <<>> }

FetchFailed == <<"fetch failed">>

-----------------------------------------------------------------------------
(* The request pipeline: one request, from POST to its response *)

\* null: no active session, no stored item
Null == "null"

\* localStorage.getItem(SESSIONS_STORAGE): kind is "absent" (null),
\* "corrupt" (a text JSON.parse rejects) or "list" (a stored session list)
Stored(kind, list) == [kind |-> kind, list |-> list]

\* no chat page is open
PageIdle ==
    /\ pagePc = "idle"
    /\ stored = Stored("absent", <<>>)
    /\ sessions = <<>>
    /\ activeId = Null
    /\ nextId = 1
    /\ input = <<>>
    /\ isLoading = FALSE
    /\ attachments = <<>>
    /\ fileContents = <<>>
    /\ picked = 0
    /\ jobs = <<>>
    /\ sends = <<>>
    /\ issued = 0
    /\ removed = {}

SanIdle ==
    /\ sanIn = <<>>
    /\ sanOnce = <<>>
    /\ sanTwice = <<>>
    /\ sanPc = 0

CitIdle ==
    /\ citIn = <<>>
    /\ citOut = <<>>
    /\ citPc = 0

Init ==
    /\ route \in {"chat", "direct"}
    /\ env \in Credentials
    /\ req \in Requests
    /\ pc = "start"
    /\ idx = 0
    /\ calls = <<>>
    /\ question = <<>>
    /\ found = NoSearch
    /\ refs = <<>>
    /\ prompts = <<>>
    /\ uploaded = <<>>
    /\ contents = <<>>
    /\ resp = NoResp
    /\ SanIdle
    /\ CitIdle
    /\ PageIdle

\* a handler whose exception escapes: the request ends with no response
Escape(r) ==
    /\ pc' = "done"
    /\ resp' = NoResp

\* a handler that records the response and runs its current step again
Retry(r) ==
    /\ pc' = pc
    /\ resp' = r

\* return NextResponse.json(...)
Finish(r) ==
    /\ pc' = "done"
    /\ resp' = r

\* a handler that does not wait for the upload loop
SkipUploads(i) ==
    IF req.messages # <<>> THEN <<"convert", 1>> ELSE <<"generate", 0>>

\* where handleGoogle stands when the upload loop reaches index i
AfterUpload(i) ==
    IF i <= Len(req.files) THEN <<"upload", i>>
    ELSE IF req.messages # <<>> THEN <<"convert", 1>>
    ELSE <<"generate", 0>>

\* where handleGoogle stands when the message loop reaches index i
AfterConvert(i) ==
    IF i <= Len(req.messages) THEN <<"convert", i>> ELSE <<"generate", 0>>

\* the first await of each workflow handler
FirstStep(h) ==
    IF h = "handleChatGPTToGemini" THEN "rewrite"
    ELSE IF h = "handleTavilyToGemini" THEN "tavily"
    ELSE "search"

\* a dispatcher that looks no model up
AnyModel(model) == TRUE

\* const modelConfig = MODEL_MAPPING[model]; if (!modelConfig) ...
ModelSupported(model) == model \in MODEL_MAPPING

\* POST, and the chosen handler up to its first await
POST ==
    /\ pc = "start"
    /\ LET h == Handler(route, req.workflow)
           missing == MissingKeyError(h, env)
           n == Len(req.messages)
       IN  IF ~ModelSupported(req.model)
           THEN /\ Finish(ErrorResponse(400, <<"Unsupported model: ", req.model>>, ""))
                /\ UNCHANGED <<idx, question>>
           ELSE IF missing # <<>>
           THEN /\ Finish(ErrorResponse(500, missing, ""))
                /\ UNCHANGED <<idx, question>>
           ELSE IF h = "handleGoogle"
           THEN /\ pc' = AfterUpload(1)[1]
                /\ idx' = AfterUpload(1)[2]
                /\ UNCHANGED <<resp, question>>
           ELSE IF n = 0
           THEN /\ Finish(WorkflowError(<<"Cannot read properties of undefined">>))
                /\ UNCHANGED <<idx, question>>
           ELSE IF Trim(UserQuestion(req.messages[n])) = <<>>
           THEN /\ Finish(ErrorResponse(400, <<"No question provided">>, ""))
                /\ UNCHANGED <<idx, question>>
           ELSE /\ pc' = FirstStep(h)
                /\ question' = UserQuestion(req.messages[n])
                /\ UNCHANGED <<idx, resp>>
    /\ UNCHANGED <<route, env, req, calls, found, refs, prompts, uploaded, contents>>
    /\ UNCHANGED studyVars

\* uploadFilesToGeminiSDK: one iteration of the loop over the files
UploadFile ==
    /\ pc = "upload"
    /\ LET f == req.files[idx]
       IN  IF f.type \in UploadTypes
           THEN \E ok \in BOOLEAN :
                    /\ calls' = Append(calls, Call("upload", IF ok THEN "ok" ELSE "throw"))
                    /\ uploaded' = IF ok THEN Append(uploaded, Handle(f, idx))
                                   ELSE uploaded
           ELSE UNCHANGED <<calls, uploaded>>
    /\ pc' = AfterUpload(idx + 1)[1]
    /\ idx' = AfterUpload(idx + 1)[2]
    /\ UNCHANGED <<route, env, req, question, found, refs, prompts, contents, resp>>
    /\ UNCHANGED studyVars

\* convertToPromptChatGPT: what it returns for contentText on each outcome of
\* the fetch that does not reject
ConvertedPrompt(contentText, outcome) ==
    IF outcome = "ok" THEN RewrittenPrompt ELSE contentText

\* processMessagesForGoogleSDK: one iteration of the loop over the messages
ConvertMessage ==
    /\ pc = "convert"
    /\ LET m == req.messages[idx]
       IN  IF m.kind = "str"
           THEN \E outcome \in RewriteOutcomes :
                    /\ calls' = Append(calls, Call("rewrite", outcome))
                    /\ IF outcome = "throw"
                       THEN /\ Finish(GoogleError(FetchFailed))
                            /\ UNCHANGED <<idx, prompts, contents>>
                       ELSE /\ prompts' = Append(prompts,
                                   [input |-> m.text,
                                    output |-> ConvertedPrompt(m.text, outcome)])
                            /\ contents' = Append(contents,
                                   Content(GeminiRole(m.role),
                                           <<TextPart(ConvertedPrompt(m.text, outcome))>>))
                            /\ pc' = AfterConvert(idx + 1)[1]
                            /\ idx' = AfterConvert(idx + 1)[2]
                            /\ UNCHANGED resp
           ELSE /\ contents' = IF ArrayParts(m) # <<>>
                               THEN Append(contents,
                                           Content(GeminiRole(m.role), ArrayParts(m)))
                               ELSE contents
                /\ pc' = AfterConvert(idx + 1)[1]
                /\ idx' = AfterConvert(idx + 1)[2]
                /\ UNCHANGED <<calls, prompts, resp>>
    /\ UNCHANGED <<route, env, req, question, found, refs, uploaded>>
    /\ UNCHANGED studyVars

\* handleGoogle: the files are attached, generateContent is awaited and the
\* response is built
GenerateSingle ==
    /\ pc = "generate"
    /\ contents' = (IF route = "chat" THEN <<SystemInstruction>> ELSE <<>>)
                   \o AttachFiles(contents, uploaded, req.files)
    /\ \/ \E text \in AnswerTexts :
             /\ calls' = Append(calls, Returned("answer", text))
             /\ Finish(SingleAnswer(route, text, uploaded))
       \/ \E msg \in ErrorMessages :
             /\ calls' = Append(calls, Threw("answer", msg))
             /\ Finish(GoogleError(msg))
    /\ UNCHANGED <<route, env, req, idx, question, found, refs, prompts, uploaded>>
    /\ UNCHANGED studyVars

\* handleChatGPTToGemini: convertToPromptChatGPT(userQuestion) is awaited and
\* the contents for Gemini are built
RewriteQuestion ==
    /\ pc = "rewrite"
    /\ \E outcome \in RewriteOutcomes :
          /\ calls' = Append(calls, Call("rewrite", outcome))
          /\ IF outcome = "throw"
             THEN /\ Finish(WorkflowError(FetchFailed))
                  /\ UNCHANGED <<prompts, contents>>
             ELSE LET optimized == ConvertedPrompt(question, outcome)
               IN  /\ prompts' = Append(prompts,
                                        [input |-> question, output |-> optimized])
                   /\ contents' = ReplaceLast(req.messages,
                                     ChatGPTPrompt(req.messages, question, optimized))
                   /\ pc' = "answer"
                   /\ UNCHANGED resp
    /\ UNCHANGED <<route, env, req, idx, question, found, refs, uploaded>>
    /\ UNCHANGED studyVars

\* NextResponse.json({ error, errorType: "perplexity_search_error" }, 502)
SearchFailed(msg) == ErrorResponse(502, msg, "perplexity_search_error")

\* the handlers' step after a successful Perplexity search
AfterSearch(h) == IF h = "handlePerplexityToGemini" THEN "answer" ELSE "refine"

\* handlePerplexityToGemini / handlePerplexityChatGPTToGemini:
\* searchWithPerplexityStyle(userQuestion) is awaited; on success the reference
\* lines and, in handlePerplexityToGemini, the contents for Gemini are built
SearchPerplexity ==
    /\ pc = "search"
    /\ IF ~env.perplexity
       THEN /\ Finish(SearchFailed(<<"Perplexity API key is not configured.">>))
            /\ found' = SearchReturn("missing_api_key", <<>>, <<>>, <<>>)
            /\ UNCHANGED <<calls, refs, contents>>
       ELSE \E outcome \in SearchOutcomes :
               /\ calls' = Append(calls, Call("search", outcome))
               /\ IF outcome # "ok"
                  THEN /\ Finish(SearchFailed(IF outcome = "http"
                                              THEN <<"Perplexity API error">>
                                              ELSE FetchFailed))
                       /\ found' = SearchReturn(IF outcome = "http"
                                                THEN "perplexity_api_error"
                                                ELSE "perplexity_network_error",
                                                <<>>, <<>>, <<>>)
                       /\ UNCHANGED <<refs, contents>>
                  ELSE \E summary \in Summaries, citations \in CitationLists :
                          LET results == SearchResults(<<Group(TRUE, citations)>>)
                              entries == ReferenceEntries(results)
                              h == Handler(route, req.workflow)
                          IN  /\ found' = SearchReturn("none", Trim(summary),
                                                        results, citations)
                              /\ refs' = entries
                              /\ contents' =
                                    IF h = "handlePerplexityToGemini"
                                    THEN ReplaceLast(req.messages,
                                            PerplexityPrompt(req.messages, question,
                                                             Trim(summary), entries))
                                    ELSE contents
                              /\ pc' = AfterSearch(h)
                              /\ UNCHANGED resp
    /\ UNCHANGED <<route, env, req, idx, question, prompts, uploaded>>
    /\ UNCHANGED studyVars

\* handlePerplexityChatGPTToGemini: the fetch of the rewrite provider is
\* awaited; refinedPrompt becomes the only content given to Gemini
RefinePrompt ==
    /\ pc = "refine"
    /\ \E outcome \in RewriteOutcomes :
          /\ calls' = Append(calls, Call("rewrite", outcome))
          /\ IF outcome \in {"throw", "http"}
             THEN /\ Finish(WorkflowError(IF outcome = "http"
                                          THEN <<"Failed to get response from ChatGPT">>
                                          ELSE FetchFailed))
                  /\ UNCHANGED <<prompts, contents>>
             ELSE LET refined == IF outcome = "ok" THEN RewrittenPrompt ELSE question
               IN  /\ prompts' = Append(prompts,
                          [input |-> RefineInput(question, found.answer, refs),
                           output |-> refined])
                   /\ contents' = <<Content("user", <<TextPart(refined)>>)>>
                   /\ pc' = "answer"
                   /\ UNCHANGED resp
    /\ UNCHANGED <<route, env, req, idx, question, found, refs, uploaded>>
    /\ UNCHANGED studyVars

\* handleTavilyToGemini: searchWithTavily(userQuestion) is awaited (it
\* returns null without a call when no key is configured, and null when the
\* call fails) and the contents for Gemini are built
SearchTavily ==
    /\ pc = "tavily"
    /\ IF ~env.tavily
       THEN /\ found' = SearchReturn("missing_api_key", <<>>, <<>>, <<>>)
            /\ contents' = ReplaceLast(req.messages, TavilyPrompt(question, <<>>, <<>>))
            /\ UNCHANGED calls
       ELSE \E outcome \in SearchOutcomes :
               /\ calls' = Append(calls, Call("search", outcome))
               /\ IF outcome # "ok"
                  THEN /\ found' = SearchReturn(IF outcome = "http"
                                                THEN "tavily_api_error"
                                                ELSE "tavily_network_error",
                                                <<>>, <<>>, <<>>)
                       /\ contents' = ReplaceLast(req.messages,
                                         TavilyPrompt(question, <<>>, <<>>))
                  ELSE \E summary \in Summaries, results \in TavilyResultLists :
                          /\ found' = SearchReturn("none", summary, results, results)
                          /\ contents' = ReplaceLast(req.messages,
                                            TavilyPrompt(question, summary, results))
    /\ pc' = "answer"
    /\ UNCHANGED <<route, env, req, idx, question, refs, prompts, uploaded, resp>>
    /\ UNCHANGED studyVars

\* the response a workflow handler builds from Gemini's text
WorkflowAnswer(h, text, entries) ==
    IF h \in {"handlePerplexityToGemini", "handlePerplexityChatGPTToGemini"}
    THEN GroundedAnswer(text, entries)
    ELSE AnswerResponse(text, "none", <<>>)

\* the workflow handlers: generateContent is awaited and the response built
AnswerGemini ==
    /\ pc = "answer"
    /\ \/ \E text \in AnswerTexts :
             /\ calls' = Append(calls, Returned("answer", text))
             /\ Finish(WorkflowAnswer(Handler(route, req.workflow), text, refs))
       \/ \E msg \in ErrorMessages :
             /\ calls' = Append(calls, Threw("answer", msg))
             /\ Finish(WorkflowError(msg))
    /\ UNCHANGED <<route, env, req, idx, question, found, refs, prompts, uploaded,
                   contents>>
    /\ UNCHANGED studyVars

Next ==
    \/ POST
    \/ UploadFile
    \/ ConvertMessage
    \/ GenerateSingle
    \/ RewriteQuestion
    \/ SearchPerplexity
    \/ RefinePrompt
    \/ SearchTavily
    \/ AnswerGemini

Spec == Init /\ [][Next]_vars

\* each step is the continuation of an awaited call: the runtime runs it
\* once the call has returned or thrown
LiveSpec == Init /\ [][Next]_vars /\ WF_vars(Next)

-----------------------------------------------------------------------------
(* Cleanup study: the chain applied to a generated text, then to its output *)

SanAlphabet == {"*", BackTick, "#", "[", "]", "(", ")", "-", " ", NL, "a"}

RECURSIVE TextsUpTo(_, _)
TextsUpTo(alphabet, n) ==
    IF n = 0 THEN {<<>>}
    ELSE LET shorter == TextsUpTo(alphabet, n - 1)
         IN  shorter \cup {Append(t, c) : t \in shorter, c \in alphabet}

\* the pipeline's variables while a study runs: no request
NoRequest ==
    /\ route = "chat"
    /\ env = [google |-> TRUE, openai |-> TRUE, perplexity |-> TRUE, tavily |-> TRUE]
    /\ req = [model |-> "gemini-2.5-flash", workflow |-> "single",
              messages |-> <<>>, files |-> <<>>]
    /\ pc = "idle"
    /\ idx = 0
    /\ calls = <<>>
    /\ question = <<>>
    /\ found = NoSearch
    /\ refs = <<>>
    /\ prompts = <<>>
    /\ uploaded = <<>>
    /\ contents = <<>>
    /\ resp = NoResp

SanInit ==
    /\ sanIn \in TextsUpTo(SanAlphabet, MaxTextLen)
    /\ sanOnce = <<>>
    /\ sanTwice = <<>>
    /\ sanPc = 0
    /\ NoRequest
    /\ CitIdle
    /\ PageIdle

CleanFirst ==
    /\ sanPc = 0
    /\ sanOnce' = CleanText(sanIn)
    /\ sanPc' = 1
    /\ UNCHANGED <<sanIn, sanTwice>>
    /\ UNCHANGED reqVars
    /\ UNCHANGED citVars
    /\ UNCHANGED pageVars

CleanAgain ==
    /\ sanPc = 1
    /\ sanTwice' = CleanText(sanOnce)
    /\ sanPc' = 2
    /\ UNCHANGED <<sanIn, sanOnce>>
    /\ UNCHANGED reqVars
    /\ UNCHANGED citVars
    /\ UNCHANGED pageVars

SanNext == CleanFirst \/ CleanAgain

SanSpec == SanInit /\ [][SanNext]_vars

-----------------------------------------------------------------------------
(* Citation study: the search adapter's normalisation of one response *)

MaxCandidates == 3

\* citation candidates of every shape: plain URL strings, objects naming
\* their URL in url, source or link, with and without a title, two objects
\* with the same title and URL but different snippets, two objects whose
\* URL and title differ but concatenate to the same key, and null
StudyCitations ==
    { StringCitation(<<"u">>),
      Citation("object", <<"t">>, <<>>, <<"u">>, <<>>, <<"s1">>),
      Citation("object", <<"t">>, <<>>, <<"u">>, <<>>, <<"s2">>),
      Citation("object", <<>>, <<"u">>, <<>>, <<>>, <<>>),
      Citation("object", <<>>, <<>>, <<>>, <<"u">>, <<"s1">>),
      Citation("object", <<"t">>, <<>>, <<"u", "|", "t">>, <<>>, <<>>),
      Citation("object", <<"t", "|", "t">>, <<>>, <<"u">>, <<>>, <<>>),
      Citation("other", <<>>, <<>>, <<>>, <<>>, <<>>) }

\* a response whose candidates are spread over two metadata locations, with
\* a location that holds no array between them
SplitGroups(candidates, k) ==
    << Group(TRUE, SubSeq(candidates, 1, k)),
       Group(FALSE, <<>>),
       Group(TRUE, SubSeqFrom(candidates, k + 1)) >>

CitInit ==
    /\ \E candidates \in TextsUpTo(StudyCitations, MaxCandidates) :
          \E k \in 0..Len(candidates) : citIn = SplitGroups(candidates, k)
    /\ citOut = <<>>
    /\ citPc = 0
    /\ NoRequest
    /\ SanIdle
    /\ PageIdle

Normalise ==
    /\ citPc = 0
    /\ citOut' = SearchResults(citIn)
    /\ citPc' = 1
    /\ UNCHANGED citIn
    /\ UNCHANGED reqVars
    /\ UNCHANGED sanVars
    /\ UNCHANGED pageVars

CitNext == Normalise

CitSpec == CitInit /\ [][CitNext]_vars

-----------------------------------------------------------------------------
(* Claims *)

\* the stages of the provider calls made so far, in order (an upload to the
\* Files API is no stage)
Stages ==
    LET staged == SelectSeq(calls, LAMBDA c : c.stage # "upload")
    IN  [i \in 1..Len(staged) |-> staged[i].stage]

\* the stage table of the workflows
StagePlan(workflow) ==
    CASE workflow = "single" -> <<"answer">>
      [] workflow = "chatgpt-to-gemini" -> <<"rewrite", "answer">>
      [] workflow = "tavily-to-gemini" -> <<"search", "answer">>
      [] workflow = "perplexity-to-gemini" -> <<"search", "answer">>
      [] workflow = "perplexity-chatgpt-gemini" -> <<"search", "rewrite", "answer">>
      [] OTHER -> <<>>

HasStage(workflow, stage) ==
    \E i \in 1..Len(StagePlan(workflow)) : StagePlan(workflow)[i] = stage

\* the request names a known workflow and went to the route module that
\* implements it (single is implemented by both)
OwnRoute ==
    /\ req.workflow \in KnownWorkflows
    /\ req.workflow = "single" \/ Handler(route, req.workflow) # "handleGoogle"

Answered == pc = "done" /\ resp.sent

Succeeded == Answered /\ resp.status = 200 /\ resp.hasText

Rejected == resp.status >= 400 /\ resp.status < 500 /\ ~resp.hasText

Called(stage) == \E i \in 1..Len(calls) : calls[i].stage = stage

CallFailed(stage) ==
    \E i \in 1..Len(calls) :
        calls[i].stage = stage /\ calls[i].outcome \in {"http", "throw"}

ThisHandler == Handler(route, req.workflow)

PerplexityHandlers == {"handlePerplexityToGemini", "handlePerplexityChatGPTToGemini"}

Min(a, b) == IF a <= b THEN a ELSE b

\* C1: a successful request of each workflow, on the route that implements
\* it, has executed exactly the stages of the workflow's row of the table
C1_StageSequence ==
    (Succeeded /\ OwnRoute) => Stages = StagePlan(req.workflow)

\* C2: in a workflow with a SEARCH stage a failed search (no key, non-2xx,
\* exception) is followed by no rewrite or answer call and the request ends
\* with an error response; a failed answer call ends with an error response
\* and no text
C2_MandatoryStagesFatal ==
    /\ (OwnRoute /\ HasStage(req.workflow, "search")
        /\ found.error \notin {"not-run", "none"})
       => /\ ~Called("rewrite")
          /\ ~Called("answer")
          /\ Answered => (resp.status >= 400 /\ ~resp.hasText)
    /\ (OwnRoute /\ CallFailed("answer") /\ Answered)
       => (resp.status >= 400 /\ ~resp.hasText)

\* C3: in a workflow with a REWRITE stage a failed rewrite call (non-2xx,
\* exception) leaves the question as the prompt, the answer provider is still
\* called, and the request succeeds when the answer provider does
C3_RewriteDegrades ==
    (OwnRoute /\ HasStage(req.workflow, "rewrite") /\ CallFailed("rewrite")
     /\ Answered)
    => /\ Called("answer")
       /\ ~CallFailed("answer") => Succeeded
       /\ prompts # <<>> => prompts[Len(prompts)].output = question

\* the request's last message carries no question: its text is empty,
\* whitespace only, or absent
BlankQuestion ==
    /\ req.messages # <<>>
    /\ Trim(UserQuestion(req.messages[Len(req.messages)])) = <<>>

\* C4: a request with a blank question, for a supported model and with the
\* workflow's credentials configured, makes no provider call of any kind and
\* ends with a 400-class response
C4_BlankQuestionRejected ==
    (OwnRoute /\ BlankQuestion /\ req.model \in MODEL_MAPPING
     /\ MissingKeyError(ThisHandler, env) = <<>>)
    => /\ calls = <<>>
       /\ Answered => Rejected

HasSourcesBlock == resp.sources # "none"

\* C6: a successful request's text has a sources block exactly when its
\* workflow has a SEARCH stage (the single workflow with attachments, whose
\* block lists the uploaded files, is left aside)
C6_SourcesIffSearch ==
    (Succeeded /\ OwnRoute /\ ~(req.workflow = "single" /\ req.files # <<>>))
    => (HasSourcesBlock <=> HasStage(req.workflow, "search"))

\* C7: when a workflow's search succeeded with zero results and the request
\* succeeds, the text carries the sources section as the placeholder
C7_PlaceholderWhenNoResults ==
    (Succeeded /\ OwnRoute /\ ThisHandler \in PerplexityHandlers
     /\ found.error = "none" /\ found.results = <<>>)
    => resp.sources = "placeholder"

\* the reference entry e shows the search result r
ShowsResult(e, r) ==
    /\ e.content = r.content
    /\ Trim(r.url) # <<>> => e.url = Trim(r.url)
    /\ Trim(r.title) # <<>> => e.title = Trim(r.title)

\* C8: the reference block of a successful request lists exactly the first
\* min(N, 5) of the N results the search adapter returned, in the adapter's
\* order and numbered from 1; the file block of the single workflow lists the
\* first min(N, 5) uploaded files the same way
C8_ReferenceCap ==
    /\ (Succeeded /\ ThisHandler \in PerplexityHandlers)
       => LET k == Min(Len(found.results), 5)
          IN  /\ Len(resp.entries) = k
              /\ \A i \in 1..k :
                    /\ resp.entries[i].n = i
                    /\ ShowsResult(resp.entries[i], found.results[i])
    /\ (Succeeded /\ route = "chat" /\ ThisHandler = "handleGoogle")
       => LET k == Min(Len(uploaded), 5)
          IN  /\ Len(resp.entries) = k
              /\ \A i \in 1..k :
                    /\ resp.entries[i].n = i
                    /\ resp.entries[i].url = uploaded[i].fileUri

C8_Witness ==
    /\ Succeeded
    /\ ThisHandler \in PerplexityHandlers
    /\ Len(found.results) > 5
    /\ Len(resp.entries) = 5
    /\ resp.sources = "list"

\* the entries of the candidates of the studied response, in order
StudyEntries ==
    LET candidates == CollectCandidates(citIn)
    IN  [n \in 1..Len(candidates) |-> EntryOf(candidates[n], n)]

PairOf(e) == <<e.url, e.title>>

\* position n is the first at which an entry with the key of entry n is seen
FirstSeen(n) ==
    /\ ~StudyEntries[n].none
    /\ \A m \in 1..(n - 1) :
          StudyEntries[m].none \/ EntryKey(StudyEntries[m]) # EntryKey(StudyEntries[n])

\* C9: the adapter's results hold no two entries with the same (url, title)
\* pair; they are exactly the first-seen entries of the composite keys of the
\* candidates, in candidate order, whatever the shapes and locations
C9_NoDuplicateResults ==
    citPc = 1 =>
       LET firsts == SelectSeq([n \in 1..Len(StudyEntries) |-> n], FirstSeen)
       IN  /\ \A j, k \in 1..Len(citOut) :
                 j # k => PairOf(citOut[j]) # PairOf(citOut[k])
           /\ Len(citOut) = Len(firsts)
           /\ \A k \in 1..Len(citOut) :
                 citOut[k] = SearchResult(StudyEntries[firsts[k]])

C9_Witness ==
    /\ citPc = 1
    /\ citIn[1].items # <<>>
    /\ citIn[3].items # <<>>
    /\ Len(citOut) = 2
    /\ Len(CollectCandidates(citIn)) = 3
    /\ \A n \in 1..3 : ~StudyEntries[n].none
    /\ \E k \in 1..2 : citOut[k].content = <<"s1">>

\* C10: the cleanup chain is idempotent: applied to its own output it returns
\* that output unchanged
C10_CleanupIdempotent == sanPc = 2 => sanTwice = sanOnce

\* C11: every response carries exactly one of answer text and error: a
\* success response (status 200) has the text fields and no error field, an
\* error response has the error field and no text
C11_TextXorError ==
    resp.sent =>
       /\ resp.hasText <=> resp.error = <<>>
       /\ resp.hasText <=> resp.status = 200

C11_Witness ==
    /\ Answered
    /\ Called("search")
    /\ CallFailed("answer")
    /\ resp.error # <<>>
    /\ ~resp.hasText
    /\ resp.status = 500

\* the message of the error the answer provider threw, <<>> if it did not
AnswerErrorMessage ==
    LET failed == SelectSeq(calls, LAMBDA c : c.stage = "answer" /\ c.outcome = "throw")
    IN  IF failed = <<>> THEN <<>> ELSE failed[1].msg

\* C12: when the answer provider reports invalid credentials the response
\* status is 401, and when it reports quota or rate-limit exhaustion the
\* status is 429 or 402, in every workflow
C12_AuthAndQuotaStatus ==
    (Answered /\ OwnRoute /\ CallFailed("answer"))
    => /\ Includes(AnswerErrorMessage, "API key") => resp.status = 401
       /\ (~Includes(AnswerErrorMessage, "API key")
           /\ (Includes(AnswerErrorMessage, "quota")
               \/ Includes(AnswerErrorMessage, "limit")))
          => resp.status \in {429, 402}

\* the credentials the stages of a workflow need
NeededKeys(workflow) ==
    {"google"}
    \cup (IF HasStage(workflow, "rewrite") THEN {"openai"} ELSE {})
    \cup (IF workflow = "tavily-to-gemini" THEN {"tavily"} ELSE {})
    \cup (IF workflow \in {"perplexity-to-gemini", "perplexity-chatgpt-gemini"}
          THEN {"perplexity"} ELSE {})

\* C13: a well-formed request (supported model, a question) of a workflow one
\* of whose providers has no credentials configured ends with a 500-class
\* error response
C13_MissingCredentials ==
    (Answered /\ OwnRoute /\ req.model \in MODEL_MAPPING
     /\ req.messages # <<>> /\ ~BlankQuestion
     /\ \E k \in NeededKeys(req.workflow) : ~env[k])
    => (resp.status >= 500 /\ resp.status < 600 /\ ~resp.hasText)

\* the positions of the request's files that go through the Files API
UploadPositions ==
    SelectSeq([i \in 1..Len(req.files) |-> i],
              LAMBDA i : req.files[i].type \in UploadTypes)

UploadCalls == SelectSeq(calls, LAMBDA c : c.stage = "upload")

\* the handles of the files whose upload call succeeded, in file order
ExpectedHandles ==
    LET kept == SelectSeq([k \in 1..Len(UploadCalls) |-> k],
                          LAMBDA k : UploadCalls[k].outcome = "ok")
    IN  [j \in 1..Len(kept) |->
            Handle(req.files[UploadPositions[kept[j]]], UploadPositions[kept[j]])]

FileRefs(content) == SelectSeq(content.parts, LAMBDA part : part.kind = "fileData")

FileImages(content) ==
    SelectSeq(content.parts,
              LAMBDA part : part.kind = "inlineData" /\ part.text[1] = "data:")

ImageFiles == SelectSeq(req.files, LAMBDA f : f.type \in ImageTypes)

\* C15: in every workflow, when the answer provider has been called for a
\* request with a question and no upload failed, the final user turn it was
\* given carries a file reference for each office/PDF attachment and an
\* inline part for each image attachment
C15_AttachmentsReachAnswer ==
    (OwnRoute /\ Called("answer") /\ ~CallFailed("upload") /\ req.messages # <<>>)
    => /\ contents # <<>>
       /\ Len(FileRefs(contents[Len(contents)])) = Len(UploadPositions)
       /\ Len(FileImages(contents[Len(contents)])) = Len(ImageFiles)

\* the conversation given to the answer provider, the system instruction
\* of the chat route's handleGoogle left aside
SentHistory ==
    IF contents # <<>> /\ contents[1] = SystemInstruction THEN Tail(contents)
    ELSE contents

\* C16: the history given to the answer provider has one content per
\* message of the request, in order, and every message before the last is
\* sent with its own text as its only part
C16_HistoryFrame ==
    (OwnRoute /\ Called("answer"))
    => /\ Len(SentHistory) = Len(req.messages)
       /\ \A i \in 1..(Len(req.messages) - 1) :
             /\ SentHistory[i].role = GeminiRole(req.messages[i].role)
             /\ SentHistory[i].parts = <<TextPart(ContentString(req.messages[i]))>>

\* the positions at which the text part occurs in the text whole
Occurrences(whole, part) ==
    {i \in 1..Len(whole) : OccursAt(whole, part, i)}

Least(S) == CHOOSE i \in S : \A j \in S : i <= j

\* part a occurs in whole, and part b occurs after the first a
InOrder(whole, a, b) ==
    /\ Occurrences(whole, a) # {}
    /\ \E j \in Occurrences(whole, b) : j >= Least(Occurrences(whole, a)) + Len(a)

\* C17: in a workflow with a REWRITE stage the text given to the rewrite
\* provider holds the question, before it the search summary when the search
\* gave one, and before those the conversation context when the request has
\* earlier messages
C17_RewriteInputComposition ==
    (OwnRoute /\ HasStage(req.workflow, "rewrite") /\ prompts # <<>>)
    => LET given == prompts[Len(prompts)].input
           context == ConversationContext(req.messages)
       IN  /\ Occurrences(given, question) # {}
           /\ found.answer # <<>> => InOrder(given, found.answer, question)
           /\ context # <<>> => InOrder(given, context, question)
           /\ (context # <<>> /\ found.answer # <<>>)
              => InOrder(given, context, found.answer)

\* the stage after the search has been given its input
NextStageComposed ==
    IF ThisHandler = "handlePerplexityChatGPTToGemini" THEN prompts # <<>>
    ELSE pc \in {"answer", "done"} /\ contents # <<>>

\* the text the stage after the search is given: the rewrite input, or the
\* last message of the conversation for the answer provider
NextStageInput ==
    IF ThisHandler = "handlePerplexityChatGPTToGemini"
    THEN prompts[Len(prompts)].input
    ELSE contents[Len(contents)].parts[1].text

\* C18: when the search returned a summary and no result, the stage after
\* the search is given a text that holds the summary, not the bare question
C18_SummaryAloneIsComposed ==
    (OwnRoute /\ HasStage(req.workflow, "search") /\ found.error = "none"
     /\ found.answer # <<>> /\ found.results = <<>> /\ NextStageComposed)
    => /\ Occurrences(NextStageInput, found.answer) # {}
       /\ NextStageInput # question

\* C19: when the search returned more than 5 results, every one of them is
\* composed into the text given to the stage after the search
C19_AllResultsComposed ==
    (OwnRoute /\ ThisHandler \in PerplexityHandlers /\ found.error = "none"
     /\ Len(found.results) > 5 /\ NextStageComposed)
    => \A i \in 1..Len(found.results) :
          Occurrences(NextStageInput, found.results[i].title) # {}

\* an object citation without a title
Titleless(c) == c.shape = "object" /\ c.title = <<>>

\* the URL of an object citation, <<>> if it has none
UrlOf(c) == FirstTruthy(c.url, c.source, c.link, <<>>)

\* C20: in the reference block, a citation object that has a URL and no
\* title is titled with the hostname of its URL, never with the URL itself,
\* and one with neither title nor URL is titled 'Source N'
C20_TitleFallback ==
    (Succeeded /\ ThisHandler \in PerplexityHandlers)
    => \A i \in 1..Len(resp.entries), n \in 1..Len(found.raw) :
          (Titleless(found.raw[n])
           /\ found.results[i] = SearchResult(EntryOf(found.raw[n], n)))
          => IF UrlOf(found.raw[n]) # <<>>
             THEN /\ resp.entries[i].title = Hostname(UrlOf(found.raw[n]))
                  /\ resp.entries[i].title # UrlOf(found.raw[n])
             ELSE resp.entries[i].title = <<"Source ">> \o NumText(n)

\* the positions in calls of the calls of a stage
CallPositions(stage) == {i \in 1..Len(calls) : calls[i].stage = stage}

\* C21: when the answer provider is called, every office/PDF attachment of a
\* request served by the uploading handler has had its upload call resolved,
\* and no upload call comes after the answer call
C21_AnswerAfterUploads ==
    /\ \A a \in CallPositions("answer"), u \in CallPositions("upload") : u < a
    /\ (Called("answer") /\ ThisHandler = "handleGoogle")
       => /\ Cardinality(CallPositions("upload")) = Len(UploadPositions)
          /\ \A u \in CallPositions("upload") : calls[u].outcome \in {"ok", "throw"}

C21_Witness ==
    /\ Answered
    /\ Called("answer")
    /\ Len(UploadPositions) >= 2
    /\ CallFailed("upload")
    /\ uploaded # <<>>
    /\ calls[Len(calls)].stage = "answer"

\* the text of the response the answer provider returned
AnswerText == calls[Least(CallPositions("answer"))].msg

\* C22: the answer provider is called at most once in a request, and the
\* text of a success response is the text of that one call: as it is, or
\* cleaned, never a longer text
C22_AnswerCalledOnce ==
    /\ Cardinality(CallPositions("answer")) <= 1
    /\ Succeeded
       => /\ Cardinality(CallPositions("answer")) = 1
          /\ calls[Len(calls)].stage = "answer"
          /\ resp.text \in {AnswerText, stripReferenceSection(CleanText(AnswerText))}

C22_Witness ==
    /\ Succeeded
    /\ Called("search")
    /\ Cardinality(CallPositions("answer")) = 1
    /\ AnswerText # <<>>
    /\ resp.text # <<>>

\* the number of lines of a text that are reference-section headings
HeadingLines(s) == Cardinality({i \in LineStarts(s) : IsRefHeadingLine(s, i)})

\* the handlers that strip the model's reference section and append their own
StrippingHandlers == {"handleGoogle"} \cup PerplexityHandlers

\* the number of reference-section headings of the final answer text: those
\* left in the model's text and the one of the appended block
FinalHeadings ==
    HeadingLines(resp.text) + (IF resp.sources \in {"list", "placeholder"} THEN 1 ELSE 0)

\* C23: the final answer text of a handler that appends a reference section
\* holds at most one reference-section heading, and none in the part that
\* comes from the model, however many headings the model text had
C23_OneReferenceHeading ==
    (Succeeded /\ route = "chat" /\ ThisHandler \in StrippingHandlers)
    => /\ FinalHeadings <= 1
       /\ HeadingLines(resp.text) = 0

\* the words of an error message, whatever their letter case
KeyWords == {"API key", "API KEY"}
QuotaWords == {"quota", "Quota"}
LimitWords == {"limit", "Limit"}

Mentions(msg, words) == \E i \in 1..Len(msg) : msg[i] \in words

\* C24: handleGoogle classifies an answer-provider error by the words of its
\* message in any letter case: a key message is answered 401, a quota or
\* limit message 429, any other message 500
C24_ClassificationIgnoresCase ==
    (Answered /\ ThisHandler = "handleGoogle" /\ CallFailed("answer"))
    => resp.status =
          IF Mentions(AnswerErrorMessage, KeyWords) THEN 401
          ELSE IF Mentions(AnswerErrorMessage, QuotaWords)
                  \/ Mentions(AnswerErrorMessage, LimitWords) THEN 429
          ELSE 500

\* a success, or an error with a status and a message and no text
StructuredResponse ==
    \/ resp.status = 200 /\ resp.hasText /\ resp.error = <<>>
    \/ resp.status >= 400 /\ ~resp.hasText /\ resp.error # <<>>

\* C25: every request ends: it reaches its return, a response has been sent
\* exactly when it has, the response is a success or a structured error,
\* and a response once sent is never replaced
C25_ExactlyOneResponse ==
    /\ [](resp.sent <=> pc = "done")
    /\ [](pc = "done" => StructuredResponse)
    /\ [][resp.sent => resp' = resp]_vars
    /\ <>(pc = "done")

C25_Witness ==
    /\ Answered
    /\ req.messages = <<>>
    /\ ThisHandler = "handlePerplexityChatGPTToGemini"
    /\ resp.status = 500
    /\ resp.errorType = "workflow_error"

-----------------------------------------------------------------------------
(* The chat page: the sessions hook, the composer and the sends in flight *)

MaxSessions == 2
MaxPicked == 1
MaxSends == 2

NewTitle == <<"Cuoc tro chuyen moi">>
DefaultTitle == <<"Cuoc tro chuyen">>

Session(id, title, turns) == [id |-> id, title |-> title, turns |-> turns]

\* a turn: the user's message and the reply ("answer", or "error" for the
\* turn the catch block stores)
Turn(n, user, reply) == [id |-> n, user |-> user, reply |-> reply]

\* uuidv4()
Uuid(n) == "s" \o ToString(n)

FreshSession(id) == Session(id, NewTitle, <<>>)

\* what an earlier visit left in localStorage: nothing, an unreadable text,
\* a session list, or the empty list the Persist effect writes when the
\* page mounts
StoredValues ==
    { Stored("absent", <<>>),
      Stored("corrupt", <<>>),
      Stored("list", <<>>),
      Stored("list", <<Session("s0", NewTitle, <<>>)>>) }

\* const active = sessions.find((s) => s.id === activeId) ?? null
Active(ss, a) == {i \in 1..Len(ss) : ss[i].id = a}

\* the Load effect: <<sessions, activeId>>
LoadSessions(st, fresh) ==
    IF st.kind = "list"
    THEN <<st.list, IF st.list # <<>> THEN st.list[1].id ELSE Null>>
    ELSE <<(<<FreshSession(fresh)>>), fresh>>

\* the effect that activates the first session when none is active
Repair(ss, a) == IF a = Null /\ ss # <<>> THEN ss[1].id ELSE a

newSession(ss, a, fresh) == <<(<<FreshSession(fresh)>>) \o ss, fresh>>

deleteSession(ss, a, id, fresh) ==
    LET next == SelectSeq(ss, LAMBDA x : x.id # id)
    IN  IF next = <<>> THEN <<(<<FreshSession(fresh)>>), fresh>>
        ELSE <<next, IF a = id THEN next[1].id ELSE a>>

renameSession(ss, id, title) ==
    [i \in 1..Len(ss) |-> IF ss[i].id = id THEN [ss[i] EXCEPT !.title = title] ELSE ss[i]]

\* addTurn; the title slice(0, 40) keeps the short texts of the model whole
addTurn(ss, sessionId, turn) ==
    [i \in 1..Len(ss) |->
        IF ss[i].id # sessionId THEN ss[i]
        ELSE [ss[i] EXCEPT
                !.title = IF ss[i].turns = <<>>
                          THEN (IF turn.user # <<>> THEN turn.user ELSE DefaultTitle)
                          ELSE @,
                !.turns = Append(@, turn)]]

clearActiveSession(ss, sessionId) ==
    [i \in 1..Len(ss) |-> IF ss[i].id = sessionId THEN [ss[i] EXCEPT !.turns = <<>>] ELSE ss[i]]

\* a chip of the composer: state is "processing", "ready" or "error"
Attached(id, state) == [id |-> id, state |-> state]

PageInit ==
    /\ NoRequest
    /\ SanIdle
    /\ CitIdle
    /\ pagePc = "unmounted"
    /\ stored \in StoredValues
    /\ sessions = <<>>
    /\ activeId = Null
    /\ nextId = 1
    /\ input = <<>>
    /\ isLoading = FALSE
    /\ attachments = <<>>
    /\ fileContents = <<>>
    /\ picked = 0
    /\ jobs = <<>>
    /\ sends = <<>>
    /\ issued = 0
    /\ removed = {}

composerVars == <<input, isLoading, attachments, fileContents, picked, jobs, sends,
                  issued, removed>>

otherVars == <<reqVars, sanVars, citVars>>

\* the effects of the first render: Load reads the stored list, Persist
\* writes the sessions of that render, which are still []
Mount ==
    /\ pagePc = "unmounted"
    /\ LET loaded == LoadSessions(stored, Uuid(nextId))
       IN  /\ sessions' = loaded[1]
           /\ activeId' = loaded[2]
           /\ nextId' = IF stored.kind = "list" THEN nextId ELSE nextId + 1
    /\ stored' = Stored("list", <<>>)
    /\ pagePc' = "mounted"
    /\ UNCHANGED composerVars
    /\ UNCHANGED otherVars

\* the render of the loaded list and its effects
Rendered ==
    /\ pagePc = "mounted"
    /\ pagePc' = "ready"
    /\ activeId' = Repair(sessions, activeId)
    /\ stored' = Stored("list", sessions)
    /\ UNCHANGED <<sessions, nextId>>
    /\ UNCHANGED composerVars
    /\ UNCHANGED otherVars

\* a change of the session state, the effects of its render included
Commit(changed) ==
    /\ sessions' = changed[1]
    /\ activeId' = Repair(changed[1], changed[2])
    /\ stored' = Stored("list", changed[1])
    /\ pagePc' = pagePc

NewSessionClicked ==
    /\ pagePc = "ready"
    /\ nextId <= MaxSessions
    /\ Commit(newSession(sessions, activeId, Uuid(nextId)))
    /\ nextId' = nextId + 1
    /\ UNCHANGED composerVars
    /\ UNCHANGED otherVars

DeleteSessionClicked ==
    /\ pagePc = "ready"
    /\ \E i \in 1..Len(sessions) :
          /\ Len(sessions) > 1 \/ nextId <= MaxSessions
          /\ Commit(deleteSession(sessions, activeId, sessions[i].id, Uuid(nextId)))
    /\ nextId' = IF Len(sessions) = 1 THEN nextId + 1 ELSE nextId
    /\ UNCHANGED composerVars
    /\ UNCHANGED otherVars

\* the names the user may give in the rename prompt
Names == {<<"n">>}

RenameSessionClicked ==
    /\ pagePc = "ready"
    /\ \E i \in 1..Len(sessions), name \in Names :
          LET title == IF Trim(name) # <<>> THEN Trim(name) ELSE DefaultTitle
          IN  Commit(<<renameSession(sessions, sessions[i].id, title), activeId>>)
    /\ UNCHANGED nextId
    /\ UNCHANGED composerVars
    /\ UNCHANGED otherVars

SetActiveClicked ==
    /\ pagePc = "ready"
    /\ \E i \in 1..Len(sessions) : Commit(<<sessions, sessions[i].id>>)
    /\ UNCHANGED nextId
    /\ UNCHANGED composerVars
    /\ UNCHANGED otherVars

\* the clear buttons, disabled when the active session has no turn
ClearClicked ==
    /\ pagePc = "ready"
    /\ Active(sessions, activeId) # {}
    /\ \A i \in Active(sessions, activeId) : sessions[i].turns # <<>>
    /\ Commit(<<clearActiveSession(sessions, activeId), activeId>>)
    /\ UNCHANGED nextId
    /\ UNCHANGED composerVars
    /\ UNCHANGED otherVars

sessionVars == <<pagePc, stored, sessions, activeId, nextId>>

TypeInput ==
    /\ pagePc = "ready"
    /\ input = <<>>
    /\ input' = <<"q">>
    /\ UNCHANGED <<isLoading, attachments, fileContents, picked, jobs, sends, issued,
                   removed>>
    /\ UNCHANGED sessionVars
    /\ UNCHANGED otherVars

\* onFilesSelected up to its first await, for a selection of n valid files
SelectFiles ==
    /\ pagePc = "ready"
    /\ \E n \in 1..(MaxPicked - picked) :
          LET ids == [k \in 1..n |-> picked + k]
          IN  /\ attachments' = attachments \o [k \in 1..n |-> Attached(ids[k], "processing")]
              /\ jobs' = Append(jobs, ids)
              /\ picked' = picked + n
    /\ UNCHANGED <<input, isLoading, fileContents, sends, issued, removed>>
    /\ UNCHANGED sessionVars
    /\ UNCHANGED otherVars

RemoveAt(q, k) == [i \in 1..(Len(q) - 1) |-> IF i < k THEN q[i] ELSE q[i + 1]]

\* onFilesSelected resumed: processFile has resolved or thrown for one file
FileProcessed ==
    /\ pagePc = "ready"
    /\ \E j \in 1..Len(jobs), ok \in BOOLEAN :
          LET id == jobs[j][1]
          IN  /\ attachments' =
                    [i \in 1..Len(attachments) |->
                        IF attachments[i].id = id
                        THEN Attached(id, IF ok THEN "ready" ELSE "error")
                        ELSE attachments[i]]
              /\ fileContents' = IF ok THEN Append(fileContents, id) ELSE fileContents
              /\ jobs' = IF Len(jobs[j]) = 1 THEN RemoveAt(jobs, j)
                         ELSE [jobs EXCEPT ![j] = Tail(@)]
    /\ UNCHANGED <<input, isLoading, picked, sends, issued, removed>>
    /\ UNCHANGED sessionVars
    /\ UNCHANGED otherVars

\* the chip's onRemove
RemoveChip ==
    /\ pagePc = "ready"
    /\ \E i \in 1..Len(attachments) :
          /\ attachments' = SelectSeq(attachments, LAMBDA a : a.id # attachments[i].id)
          /\ removed' = removed \cup {attachments[i].id}
    /\ UNCHANGED <<input, isLoading, fileContents, picked, jobs, sends, issued>>
    /\ UNCHANGED sessionVars
    /\ UNCHANGED otherVars

\* handleSend's early return: nothing to send
NothingToSend == Trim(input) = <<>> /\ attachments = <<>>

\* the send button's disabled attribute
SendDisabled == NothingToSend \/ Active(sessions, activeId) = {} \/ isLoading

\* handleSend up to its await: the request carries the captured activeId,
\* input and fileContents; shown records the chips on screen at that time
StartSend ==
    /\ ~NothingToSend
    /\ issued < MaxSends
    /\ sends' = Append(sends, [n |-> issued + 1, sid |-> activeId, user |-> input,
                               files |-> fileContents, shown |-> attachments])
    /\ issued' = issued + 1
    /\ input' = <<>>
    /\ isLoading' = TRUE

ClickSend ==
    /\ pagePc = "ready"
    /\ ~SendDisabled
    /\ StartSend
    /\ UNCHANGED <<attachments, fileContents, picked, jobs, removed>>
    /\ UNCHANGED sessionVars
    /\ UNCHANGED otherVars

\* the textarea's onKeyDown
PressEnter ==
    /\ pagePc = "ready"
    /\ StartSend
    /\ UNCHANGED <<attachments, fileContents, picked, jobs, removed>>
    /\ UNCHANGED sessionVars
    /\ UNCHANGED otherVars

\* handleSend resumed: callDirectAPI has resolved ("answer") or thrown
SendCompleted ==
    /\ pagePc = "ready"
    /\ \E k \in 1..Len(sends), reply \in {"answer", "error"} :
          LET c == sends[k]
          IN  /\ Commit(<<addTurn(sessions, c.sid, Turn(c.n, c.user, reply)), activeId>>)
              /\ input' = IF reply = "error" THEN <<>> ELSE input
              /\ sends' = RemoveAt(sends, k)
    /\ attachments' = <<>>
    /\ fileContents' = <<>>
    /\ isLoading' = FALSE
    /\ UNCHANGED <<nextId, picked, jobs, issued, removed>>
    /\ UNCHANGED otherVars

PageNext ==
    \/ Mount
    \/ Rendered
    \/ NewSessionClicked
    \/ DeleteSessionClicked
    \/ RenameSessionClicked
    \/ SetActiveClicked
    \/ ClearClicked
    \/ TypeInput
    \/ SelectFiles
    \/ FileProcessed
    \/ RemoveChip
    \/ ClickSend
    \/ PressEnter
    \/ SendCompleted

PageSpec == PageInit /\ [][PageNext]_vars

-----------------------------------------------------------------------------
(* Claims about the chat page *)

Members(q) == {q[i] : i \in 1..Len(q)}

ShownIds(chips) == {chips[i].id : i \in 1..Len(chips)}

ReadyIds(chips) == {chips[i].id : i \in {j \in 1..Len(chips) : chips[j].state = "ready"}}

\* C26: the file contents a request carries are those of the chips shown
\* when it was sent: every content sent belongs to a chip on screen, and
\* every chip on screen whose file was processed has its content sent
C26_SentFilesAreShown ==
    \A k \in 1..Len(sends) :
        /\ Members(sends[k].files) \subseteq ShownIds(sends[k].shown)
        /\ ReadyIds(sends[k].shown) \subseteq Members(sends[k].files)

\* C27: at most one send is in flight at any time
C27_OneSendInFlight == Len(sends) <= 1

\* C28: once the page has rendered the loaded list, the session list is
\* never empty and the active id names a session of the list
C28_ActiveSessionExists ==
    pagePc = "ready" => (sessions # <<>> /\ Active(sessions, activeId) # {})

\* the turns of the session with the given id, <<>> when there is none
TurnsOf(ss, id) == IF Active(ss, id) = {} THEN <<>> ELSE ss[CHOOSE i \in Active(ss, id) : TRUE].turns

\* C29: a send that completes appends exactly one turn, its own, to the
\* session that was active when it was issued, and none to another session
C29_TurnLandsInIssuingSession ==
    [][\A k \in 1..Len(sends) :
          (sends[k].sid # Null /\ \A j \in 1..Len(sends') : sends'[j].n # sends[k].n)
          => /\ Active(sessions', sends[k].sid) # {}
             /\ \E reply \in {"answer", "error"} :
                   TurnsOf(sessions', sends[k].sid) =
                      Append(TurnsOf(sessions, sends[k].sid),
                             Turn(sends[k].n, sends[k].user, reply))
             /\ \A i \in 1..Len(sessions') :
                   sessions'[i].id # sends[k].sid
                   => sessions'[i].turns = TurnsOf(sessions, sessions'[i].id)]_vars

\* C30: no file content waits to be sent, or is sent, without its chip: a
\* content that is pending or carried by a request belongs to a chip that
\* is (was) on screen, chips the user removed left aside
C30_NoUnshownFileContent ==
    /\ Members(fileContents) \subseteq (ShownIds(attachments) \cup removed)
    /\ \A k \in 1..Len(sends) :
          Members(sends[k].files) \subseteq (ShownIds(sends[k].shown) \cup removed)

====
